---- MODULE Spec2Model ----
(***************************************************************************)
(* FinTrack Pro (newcode.py): the data access and reporting layer over the *)
(* four tables categories, expenses, budgets and subscriptions.            *)
(*                                                                         *)
(* Modelling conventions                                                   *)
(*   - a str is a sequence of one-character strings;                       *)
(*   - a float read from the user is a record [ok, nan, v]: ok = FALSE is  *)
(*     text float() rejects (ValueError), nan = TRUE is float("nan"), and  *)
(*     v is the value, an integer number of currency units;                *)
(*   - a date is a day number, and its year-month is MonthOf(date);        *)
(*   - a date or month typed by the user is a record [kind, v] with kind   *)
(*     "empty" (""), "bad" (text strptime rejects) or "date" / "month";    *)
(*   - a table is the set of its rows; a new row's id is the rowid SQLite  *)
(*     gives an INTEGER PRIMARY KEY: the largest id in the table plus one. *)
(***************************************************************************)
EXTENDS Integers, Sequences, FiniteSets, TLC

VARIABLES categories, expenses, budgets, subscriptions, today, out

vars == <<categories, expenses, budgets, subscriptions, today, out>>
store == <<categories, expenses, budgets, subscriptions>>

(***************************************************************************)
(* Bounds of the model                                                     *)
(***************************************************************************)
MaxExpenses == 3
MaxNameLen == 2
MaxDate == 3
MonthLen == 2
MaxSubs == 3

(***************************************************************************)
(* Input domains                                                           *)
(***************************************************************************)
Chars == {" ", "f", "F"}
Whitespace == {" "}

RECURSIVE StrsOfLen(_)
StrsOfLen(n) ==
  IF n = 0 THEN {<<>>}
  ELSE {Append(s, c) : s \in StrsOfLen(n - 1), c \in Chars}

RawNames == UNION {StrsOfLen(n) : n \in 0..MaxNameLen}
TwoNames == {<<"f">>, <<"F", "f">>}
StoreNames == {<<>>, <<" ">>, <<" ", "F">>, <<"f">>, <<"f", "F">>}
OneName == {<<"f">>}
Titles == {<<>>, <<" ", "t">>}
OneTitle == {<<"t">>}
SubNames == {<<>>, <<"n", " ">>}

Dates == 0..MaxDate
MonthOf(d) == d \div MonthLen
Months == {MonthOf(d) : d \in Dates}

Float(n) == [ok |-> TRUE, nan |-> FALSE, v |-> n]
NaN == [ok |-> TRUE, nan |-> TRUE, v |-> 0]
NotAFloat == [ok |-> FALSE, nan |-> FALSE, v |-> 0]
FloatInputs == {Float(n) : n \in {-1, 0, 1}} \cup {NaN, NotAFloat}
Amounts == {Float(1), Float(4)}
OneAmount == {Float(1)}
LimitInputs == {Float(n) : n \in {0, 5, 10}} \cup {NaN, NotAFloat}
SubAmounts == {Float(0), Float(2), NaN}

EmptyStr == [kind |-> "empty", v |-> 0]
BadStr == [kind |-> "bad", v |-> 0]
DateStr(d) == [kind |-> "date", v |-> d]
MonthStr(m) == [kind |-> "month", v |-> m]
DateStrs == {EmptyStr, BadStr} \cup {DateStr(d) : d \in Dates}
SearchStrs == {EmptyStr, BadStr, DateStr(1), DateStr(2)}
TwoDates == {EmptyStr, DateStr(MaxDate)}
MonthStrs == {EmptyStr} \cup {MonthStr(m) : m \in Months}
SubDates == {0, 1, 4, 5, 8, 9, 11}
SubDateStrs == {EmptyStr, BadStr} \cup {DateStr(d) : d \in SubDates}
DaysArgs == {0, 3, 7, 30}
ListLimits == 0..(MaxExpenses + 1)
\* the largest id the model lets an expense take
MaxId == MaxExpenses + 1
ExpenseIds == 0..(MaxId + 1)
IoFaults == {"none", "category", "expense"}
NoFault == {"none"}

(***************************************************************************)
(* Helpers                                                                 *)
(***************************************************************************)
None == -1

RECURSIVE LStrip(_)
LStrip(s) ==
  IF s # <<>> /\ Head(s) \in Whitespace THEN LStrip(Tail(s)) ELSE s

RECURSIVE RStrip(_)
RStrip(s) ==
  IF s # <<>> /\ s[Len(s)] \in Whitespace
  THEN RStrip(SubSeq(s, 1, Len(s) - 1))
  ELSE s

\* str.strip()
Strip(s) == RStrip(LStrip(s))

LowerChar(c) == IF c = "F" THEN "f" ELSE c

\* str.lower()
Lower(s) == [i \in 1..Len(s) |-> LowerChar(s[i])]

\* mutant of NormalizeName: the lower() is forgotten
NormalizeNameNoLower(name) == Strip(name)

\* the name get_or_create_category looks up and stores: name.strip().lower()
NormalizeName(name) == Lower(Strip(name))

\* parse_date: None for "" and for text strptime rejects
parse_date(s) == IF s.kind = "date" THEN s.v ELSE None

\* get_current_month
get_current_month == MonthOf(today)

Max(S) == CHOOSE x \in S : \A y \in S : y <= x
Min(a, b) == IF a <= b THEN a ELSE b

\* the rowid of the next row inserted into a table
NextId(rows) == IF rows = {} THEN 1 ELSE Max({r.id : r \in rows}) + 1

RECURSIVE SumAmounts(_)
SumAmounts(S) ==
  IF S = {} THEN 0
  ELSE LET e == CHOOSE x \in S : TRUE
       IN e.amount + SumAmounts(S \ {e})

\* float(input()) raised ValueError, or the value is <= 0 (False for a NaN)
NotPositive(x) == ~x.ok \/ (~x.nan /\ x.v <= 0)

(***************************************************************************)
(* Category resolution                                                     *)
(***************************************************************************)
\* session.query(Category).filter_by(name=name).first()
FindCategory(cats, name) == {c \in cats : c.name = name}

\* get_or_create_category on the table cats: the Category returned
ResolvedCategory(cats, raw) ==
  LET name == NormalizeName(raw)
      found == FindCategory(cats, name)
  IN IF found # {} THEN CHOOSE c \in found : TRUE
     ELSE [id |-> NextId(cats), name |-> name]

\* get_or_create_category on the table cats: the table after its commit
CategoriesAfterResolve(cats, raw) == cats \cup {ResolvedCategory(cats, raw)}

\* get_or_create_category called on its own
get_or_create_category(raw) ==
  /\ categories' = CategoriesAfterResolve(categories, raw)
  /\ out' = [op |-> "get_or_create_category", status |-> "ok", name |-> raw,
             cat |-> ResolvedCategory(categories, raw)]
  /\ UNCHANGED <<expenses, budgets, subscriptions, today>>

(***************************************************************************)
(* Expenses                                                                *)
(***************************************************************************)
\* mutant of AddExpenseValidation: the amount is not compared with 0
AddExpenseValidationNoAmount(titleIn, amountIn, categoryIn) ==
  IF Strip(titleIn) = <<>> THEN "Title is required."
  ELSE IF ~amountIn.ok THEN "Enter a valid positive amount."
  ELSE IF Strip(categoryIn) = <<>> THEN "Category is required."
  ELSE ""

\* the caller's checks of menu choice 1; "" when the input passes
AddExpenseValidation(titleIn, amountIn, categoryIn) ==
  IF Strip(titleIn) = <<>> THEN "Title is required."
  ELSE IF NotPositive(amountIn) THEN "Enter a valid positive amount."
  ELSE IF Strip(categoryIn) = <<>> THEN "Category is required."
  ELSE ""

\* the INSERT of the expense row fails: amount is NOT NULL and SQLite binds
\* a NaN as NULL; or the store itself fails
ExpenseWriteFails(amountIn, io) == amountIn.nan \/ io = "expense"

\* the category table once add_expense has ended in its except branch
\* because the expense's commit raised: session.rollback() undoes the
\* pending expense, the category was committed by get_or_create_category
CategoriesAfterFailedWrite(category_name) ==
  CategoriesAfterResolve(categories, category_name)

\* add_expense as main calls it (menu choice 1)
add_expense(titleIn, amountIn, categoryIn, dateIn, io) ==
  LET msg == AddExpenseValidation(titleIn, amountIn, categoryIn)
      title == Strip(titleIn)
      category_name == Strip(categoryIn)
      cat == ResolvedCategory(categories, category_name)
      parsed == parse_date(dateIn)
      d == IF parsed # None THEN parsed ELSE today
      rep == [op |-> "add_expense", amount |-> amountIn]
  IN /\ Cardinality(expenses) < MaxExpenses
     /\ NextId(expenses) <= MaxId
     /\ UNCHANGED <<budgets, subscriptions, today>>
     /\ IF msg # ""
        THEN /\ out' = rep @@ [status |-> "validation", msg |-> msg]
             /\ UNCHANGED <<categories, expenses>>
        ELSE IF cat \notin categories /\ io = "category"
        THEN \* the category's commit raises: nothing was committed
             /\ out' = rep @@ [status |-> "error", stage |-> "category"]
             /\ UNCHANGED <<categories, expenses>>
        ELSE IF ExpenseWriteFails(amountIn, io)
        THEN /\ categories' = CategoriesAfterFailedWrite(category_name)
             /\ out' = rep @@ [status |-> "error", stage |-> "expense"]
             /\ UNCHANGED expenses
        ELSE /\ categories' = CategoriesAfterResolve(categories, category_name)
             /\ expenses' = expenses \cup
                  {[id |-> NextId(expenses), title |-> Strip(title),
                    amount |-> amountIn.v, date |-> d, category_id |-> cat.id]}
             /\ out' = rep @@ [status |-> "added", id |-> NextId(expenses),
                               category |-> categoryIn, cat |-> cat]

\* session.query(Expense).get(expense_id)
GetExpense(expense_id) == {e \in expenses : e.id = expense_id}

\* mutant of ExpensesAfterDelete: the delete matches on the category
ExpensesAfterDeleteByCategory(expense_id) ==
  {e \in expenses :
     \A x \in {y \in expenses : y.id = expense_id} : e.category_id # x.category_id}

\* the rows delete_expense leaves in the expenses table
ExpensesAfterDelete(expense_id) == expenses \ GetExpense(expense_id)

delete_expense(expense_id) ==
  /\ UNCHANGED <<categories, budgets, subscriptions, today>>
  /\ IF GetExpense(expense_id) = {}
     THEN /\ out' = [op |-> "delete_expense", status |-> "not found",
                     id |-> expense_id]
          /\ UNCHANGED expenses
     ELSE /\ expenses' = ExpensesAfterDelete(expense_id)
          /\ out' = [op |-> "delete_expense", status |-> "deleted",
                     id |-> expense_id]

\* mutant of ListBefore: the tie-break is id ascending
ListBeforeIdAscending(a, b) == a.date > b.date \/ (a.date = b.date /\ a.id < b.id)

\* ORDER BY date DESC, id DESC: a comes before b
ListBefore(a, b) == a.date > b.date \/ (a.date = b.date /\ a.id > b.id)

RECURSIVE OrderBy(_)
OrderBy(S) ==
  IF S = {} THEN <<>>
  ELSE LET first == CHOOSE e \in S : \A x \in S \ {e} : ListBefore(e, x)
       IN <<first>> \o OrderBy(S \ {first})

\* .limit(limit)
Limit(rows, limit) == SubSeq(rows, 1, Min(limit, Len(rows)))

\* the rows list_expenses(limit) fetches
ListRows(limit) == Limit(OrderBy(expenses), limit)

list_expenses(limit) ==
  /\ out' = [op |-> "list_expenses", status |-> "ok", limit |-> limit,
             rows |-> ListRows(limit)]
  /\ UNCHANGED <<store, today>>

\* ORDER BY date DESC alone: a may come before b
SearchMayPrecede(a, b) == a.date >= b.date

\* every order of the rows S that the ORDER BY of search_expenses allows
RECURSIVE SearchOrders(_)
SearchOrders(S) ==
  IF S = {} THEN {<<>>}
  ELSE UNION {{<<e>> \o rest : rest \in SearchOrders(S \ {e})} :
                e \in {x \in S : \A y \in S : SearchMayPrecede(x, y)}}

\* the rows the filters of search_expenses keep
SearchFilter(start_date, end_date) ==
  LET sd == parse_date(start_date)
      ed == parse_date(end_date)
  IN {e \in expenses :
        /\ (start_date.kind # "empty" /\ sd # None) => e.date >= sd
        /\ (end_date.kind # "empty" /\ ed # None) => e.date <= ed}

search_expenses(start_date, end_date) ==
  /\ \E rows \in SearchOrders(SearchFilter(start_date, end_date)) :
       out' = [op |-> "search_expenses", status |-> "ok", rows |-> rows]
  /\ UNCHANGED <<store, today>>

(***************************************************************************)
(* Category report                                                         *)
(***************************************************************************)
\* mutant of CategoryTotal: the join forgets the month
CategoryTotalAnyMonth(c, month) ==
  SumAmounts({e \in expenses : e.category_id = c.id})

\* COALESCE(SUM(e.amount), 0) of the LEFT JOIN for category c
CategoryTotal(c, month) ==
  SumAmounts({e \in expenses : e.category_id = c.id /\ MonthOf(e.date) = month})

\* the rows of the GROUP BY c.name query, one per category name
ReportQuery(month) ==
  {[name |-> c.name, total |-> CategoryTotal(c, month)] : c \in categories}

\* every order of the rows R that ORDER BY total DESC allows
RECURSIVE TotalOrders(_)
TotalOrders(R) ==
  IF R = {} THEN {<<>>}
  ELSE UNION {{<<r>> \o rest : rest \in TotalOrders(R \ {r})} :
                r \in {x \in R : \A y \in R : x.total >= y.total}}

\* the rows category_report prints: those with amt > 0
RECURSIVE PrintedRows(_)
PrintedRows(result) ==
  IF result = <<>> THEN <<>>
  ELSE IF Head(result).total > 0
       THEN <<Head(result)>> \o PrintedRows(Tail(result))
       ELSE PrintedRows(Tail(result))

\* the total category_report accumulates over the rows it prints
RECURSIVE PrintedTotal(_)
PrintedTotal(result) ==
  IF result = <<>> THEN 0
  ELSE (IF Head(result).total > 0 THEN Head(result).total ELSE 0)
         + PrintedTotal(Tail(result))

category_report(monthIn) ==
  LET month == IF monthIn.kind = "empty" THEN get_current_month ELSE monthIn.v
  IN /\ \E result \in TotalOrders(ReportQuery(month)) :
          IF result = <<>> \/ \A i \in 1..Len(result) : result[i].total = 0
          THEN out' = [op |-> "category_report", status |-> "no spending",
                       month |-> month, rows |-> <<>>, total |-> 0]
          ELSE out' = [op |-> "category_report", status |-> "ok",
                       month |-> month, rows |-> PrintedRows(result),
                       total |-> PrintedTotal(result)]
     /\ UNCHANGED <<store, today>>

(***************************************************************************)
(* Budgets                                                                 *)
(***************************************************************************)
\* session.query(Budget).filter_by(month=month).first()
FindBudget(bs, month) == {b \in bs : b.month = month}

\* mutant of BudgetsAfterSet: a row is inserted whether or not the month has one
BudgetsAfterSetAlwaysInsert(bs, limit, month) ==
  bs \cup {[id |-> NextId(bs), month |-> month, limit |-> limit]}

\* the budgets table after set_budget(limit, month) has committed
BudgetsAfterSet(bs, limit, month) ==
  IF FindBudget(bs, month) # {}
  THEN {IF b.month = month THEN [b EXCEPT !.limit = limit] ELSE b : b \in bs}
  ELSE bs \cup {[id |-> NextId(bs), month |-> month, limit |-> limit]}

\* set_budget as main calls it (menu choice 7), with set_budget's month argument
set_budget(limitIn, monthIn) ==
  LET month == IF monthIn.kind = "empty" THEN get_current_month ELSE monthIn.v
  IN /\ UNCHANGED <<categories, expenses, subscriptions, today>>
     /\ IF NotPositive(limitIn)
        THEN /\ out' = [op |-> "set_budget", status |-> "validation",
                        month |-> month, limit |-> limitIn.v]
             /\ UNCHANGED budgets
        ELSE IF limitIn.nan
        THEN \* limit is NOT NULL and a NaN is bound as NULL: rollback
             /\ out' = [op |-> "set_budget", status |-> "error",
                        month |-> month, limit |-> limitIn.v]
             /\ UNCHANGED budgets
        ELSE /\ budgets' = BudgetsAfterSet(budgets, limitIn.v, month)
             /\ out' = [op |-> "set_budget", status |-> "set",
                        month |-> month, limit |-> limitIn.v]

\* SELECT COALESCE(SUM(amount), 0) FROM expenses WHERE strftime('%Y-%m', date) = :month
SpentIn(month) == SumAmounts({e \in expenses : MonthOf(e.date) = month})

\* percent = (spent / limit * 100) if limit > 0 else 0, as the fraction <<num, den>>
Percent(spent, limit) == IF limit > 0 THEN <<spent * 100, limit>> ELSE <<0, 1>>

\* percent < n
PercentBelow(percent, n) == percent[1] < n * percent[2]

\* mutant of StatusText: 80 percent still counts as GOOD
StatusTextInclusive(percent) ==
  IF percent[1] <= 80 * percent[2] THEN "GOOD"
  ELSE IF PercentBelow(percent, 100) THEN "CAUTION"
  ELSE "OVER BUDGET!"

\* status_text
StatusText(percent) ==
  IF PercentBelow(percent, 80) THEN "GOOD"
  ELSE IF PercentBelow(percent, 100) THEN "CAUTION"
  ELSE "OVER BUDGET!"

budget_status ==
  LET month == get_current_month
      found == FindBudget(budgets, month)
      budget == CHOOSE b \in found : TRUE
      spent == SpentIn(month)
      percent == Percent(spent, budget.limit)
  IN /\ UNCHANGED <<store, today>>
     /\ IF found = {}
        THEN out' = [op |-> "budget_status", status |-> "no budget", month |-> month]
        ELSE out' = [op |-> "budget_status", status |-> "ok", month |-> month,
                     limit |-> budget.limit, spent |-> spent,
                     percent |-> percent, band |-> StatusText(percent)]

(***************************************************************************)
(* Subscriptions                                                           *)
(***************************************************************************)
\* add_subscription as main calls it (menu choice 8)
add_subscription(nameIn, amountIn, next_date_str) ==
  LET d == parse_date(next_date_str)
  IN /\ Cardinality(subscriptions) < MaxSubs
     /\ UNCHANGED <<categories, expenses, budgets, today>>
     /\ IF Strip(nameIn) = <<>> \/ NotPositive(amountIn)
        THEN /\ out' = [op |-> "add_subscription", status |-> "validation"]
             /\ UNCHANGED subscriptions
        ELSE IF d = None
        THEN /\ out' = [op |-> "add_subscription", status |-> "invalid date"]
             /\ UNCHANGED subscriptions
        ELSE IF amountIn.nan
        THEN /\ out' = [op |-> "add_subscription", status |-> "error"]
             /\ UNCHANGED subscriptions
        ELSE /\ subscriptions' = subscriptions \cup
                  {[id |-> NextId(subscriptions), name |-> Strip(Strip(nameIn)),
                    amount |-> amountIn.v, next_date |-> d]}
             /\ out' = [op |-> "add_subscription", status |-> "added",
                        id |-> NextId(subscriptions), next_date |-> d]

\* .filter(Subscription.next_date <= soon)
UpcomingFilter(days) == {s \in subscriptions : s.next_date <= today + days}

\* every order of the rows S that ORDER BY next_date allows
RECURSIVE DueOrders(_)
DueOrders(S) ==
  IF S = {} THEN {<<>>}
  ELSE UNION {{<<s>> \o rest : rest \in DueOrders(S \ {s})} :
                s \in {x \in S : \A y \in S : x.next_date <= y.next_date}}

\* (s.next_date - today).days
DaysLeft(s) == s.next_date - today

\* mutant of ColorCode: a subscription due today is not red
ColorCodeStrict(days_left) ==
  IF days_left < 0 THEN "red" ELSE IF days_left <= 7 THEN "yellow" ELSE "green"

\* color_code
ColorCode(days_left) ==
  IF days_left <= 0 THEN "red" ELSE IF days_left <= 7 THEN "yellow" ELSE "green"

list_upcoming_subscriptions(days) ==
  /\ \E subs \in DueOrders(UpcomingFilter(days)) :
       out' = [op |-> "list_upcoming_subscriptions", status |-> "ok", days |-> days,
               rows |-> [i \in 1..Len(subs) |->
                          [sub |-> subs[i], days_left |-> DaysLeft(subs[i]),
                           color |-> ColorCode(DaysLeft(subs[i]))]]]
  /\ UNCHANGED <<store, today>>

(***************************************************************************)
(* The clock: date.today() moves on between two commands                   *)
(***************************************************************************)
Tick ==
  /\ today < MaxDate
  /\ today' = today + 1
  /\ out' = [op |-> "tick", status |-> "ok"]
  /\ UNCHANGED store

(***************************************************************************)
(* Specifications                                                          *)
(***************************************************************************)
Init ==
  /\ categories = {}
  /\ expenses = {}
  /\ budgets = {}
  /\ subscriptions = {}
  /\ today = 1
  /\ out = [op |-> "start", status |-> "ok"]

AddExpenseFrom(T, A, C, D, F) ==
  \E titleIn \in T, amountIn \in A, categoryIn \in C, dateIn \in D, io \in F :
    add_expense(titleIn, amountIn, categoryIn, dateIn, io)

AddExpense ==
  AddExpenseFrom(Titles \cup OneTitle, FloatInputs \cup Amounts, RawNames, DateStrs, IoFaults)

DeleteExpense == \E expense_id \in ExpenseIds : delete_expense(expense_id)

ListExpenses == \E limit \in ListLimits : list_expenses(limit)

SearchExpenses ==
  \E start_date \in SearchStrs, end_date \in SearchStrs :
    search_expenses(start_date, end_date)

CategoryReport == \E monthIn \in MonthStrs : category_report(monthIn)

SetBudget == \E limitIn \in LimitInputs, monthIn \in MonthStrs : set_budget(limitIn, monthIn)

BudgetStatus == budget_status

AddSubscription ==
  \E nameIn \in SubNames, amountIn \in SubAmounts, next_date_str \in SubDateStrs :
    add_subscription(nameIn, amountIn, next_date_str)

ListUpcoming == \E days \in DaysArgs : list_upcoming_subscriptions(days)

\* the whole program: the commands of main. The properties are checked under
\* the specifications below, each a part of it with narrower inputs.
Next ==
  \/ AddExpense
  \/ DeleteExpense
  \/ ListExpenses
  \/ SearchExpenses
  \/ CategoryReport
  \/ SetBudget
  \/ BudgetStatus
  \/ AddSubscription
  \/ ListUpcoming
  \/ Tick

Spec == Init /\ [][Next]_vars

\* category resolution: every name, resolved on its own and by the first
\* add_expense
GetOrCreateCategory == \E raw \in RawNames \ {<<>>} : get_or_create_category(raw)
AddFirst ==
  /\ expenses = {}
  /\ AddExpenseFrom(OneTitle, OneAmount, RawNames, {EmptyStr}, NoFault)
NextNames == GetOrCreateCategory \/ AddFirst
SpecNames == Init /\ [][NextNames]_vars

\* adding and deleting expenses: every input of menu choice 1, storage faults
AddStore == AddExpenseFrom(Titles, FloatInputs, StoreNames, {EmptyStr}, IoFaults)
NextStore == AddStore \/ DeleteExpense
SpecStore == Init /\ [][NextStore]_vars

\* listing and searching: expenses of one category on every date
AddDated == AddExpenseFrom(OneTitle, OneAmount, OneName, DateStrs, NoFault)
NextList == AddDated \/ DeleteExpense \/ ListExpenses \/ SearchExpenses
SpecList == Init /\ [][NextList]_vars

\* the category report: two categories, two amounts, a date in each of two months
AddCategorised == AddExpenseFrom(OneTitle, Amounts, TwoNames, TwoDates, NoFault)
NextReport == AddCategorised \/ DeleteExpense \/ CategoryReport
SpecReport == Init /\ [][NextReport]_vars

\* budgets: two amounts, expenses dated today, the clock
AddAmount == AddExpenseFrom(OneTitle, Amounts, OneName, {EmptyStr}, NoFault)
NextBudget == AddAmount \/ SetBudget \/ BudgetStatus \/ Tick
SpecBudget == Init /\ [][NextBudget]_vars

\* subscriptions and the clock
NextSubs == AddSubscription \/ ListUpcoming \/ Tick
SpecSubs == Init /\ [][NextSubs]_vars

(***************************************************************************)
(* Properties                                                              *)
(***************************************************************************)
\* what the properties read of a sequence
Range(seq) == {seq[i] : i \in 1..Len(seq)}

\* a name trimmed of surrounding whitespace and lowercased, character by
\* character first and trimmed after
CanonicalName(s) ==
  LET low == [i \in 1..Len(s) |-> IF s[i] = "F" THEN "f" ELSE s[i]]
      inside == {i \in 1..Len(low) : low[i] # " "}
  IN IF inside = {} THEN <<>>
     ELSE SubSeq(low, CHOOSE i \in inside : \A j \in inside : i <= j, Max(inside))

\* C1: if the write of the expense row fails inside add_expense, the store
\* is left exactly as it was before the call: no expense row is persisted
\* and every other table, the categories included, has the rows it had.
C1_FailedWriteLeavesStoreUnchanged ==
  [][(out'.op = "add_expense" /\ out'.status = "error" /\ out'.stage = "expense")
       => UNCHANGED store]_vars

\* the name and the Category of the resolution the last command made
ResolvedName == IF out.op = "add_expense" THEN out.category ELSE out.name

\* C2: no two Category rows have names that are equal after trimming and
\* lowercasing; once a non-empty name is resolved, by get_or_create_category
\* or by add_expense, the table holds one row of its canonical name, and
\* resolving any name that differs from it only in case or surrounding
\* whitespace returns that same Category (same id) and creates no row.
C2_CategoryUniqueUnderNormalisation ==
  /\ \A c, d \in categories :
       CanonicalName(c.name) = CanonicalName(d.name) => c = d
  /\ (out.op = "get_or_create_category"
       \/ (out.op = "add_expense" /\ out.status = "added")) =>
       /\ out.cat \in categories
       /\ out.cat.name = CanonicalName(ResolvedName)
       /\ Cardinality({c \in categories :
                         CanonicalName(c.name) = CanonicalName(ResolvedName)}) = 1
       /\ \A r \in RawNames \ {<<>>} :
            CanonicalName(r) = CanonicalName(ResolvedName) =>
              /\ ResolvedCategory(categories, r) = out.cat
              /\ ResolvedCategory(categories, r).id = out.cat.id
              /\ CategoriesAfterResolve(categories, r) = categories

\* C2 witness: the category an expense was added under is resolved again
\* under another spelling, to the row the expense refers to, beside a
\* second category
C2_Witness ==
  /\ out.op = "get_or_create_category"
  /\ out.name = <<"F", " ">>
  /\ out.cat.name = <<"f">>
  /\ \E e \in expenses : e.category_id = out.cat.id
  /\ Cardinality(categories) = 2
  /\ out.cat.id = 2

\* the amount read is a number <= 0
AmountNotPositive(x) == x.ok /\ ~x.nan /\ x.v <= 0

\* C3: add_expense with amount <= 0 creates no row (the row counts of the
\* expenses and categories tables are unchanged) and reports a validation
\* failure; every persisted Expense has amount > 0.
C3_NonPositiveAmountRejected ==
  /\ [][(out'.op = "add_expense" /\ AmountNotPositive(out'.amount)) =>
          /\ out'.status = "validation"
          /\ Cardinality(expenses') = Cardinality(expenses)
          /\ Cardinality(categories') = Cardinality(categories)
          /\ UNCHANGED store]_vars
  /\ [](\A e \in expenses : e.amount > 0)

\* C3 witness: a store with an expense in it has just refused the amount 0
C3_Witness ==
  /\ out.op = "add_expense"
  /\ out.amount = Float(0)
  /\ out.status = "validation"
  /\ out.msg = "Enter a valid positive amount."
  /\ expenses # {}

C4_OneBudgetPerMonth ==
  /\ [](\A a, b \in budgets : a.month = b.month => a = b)
  /\ [](\A m \in Months, l \in {5, 10} :
          LET once == BudgetsAfterSet(budgets, l, m)
          IN BudgetsAfterSet(once, l, m) = once)
  /\ [][(out'.op = "set_budget" /\ out'.status = "set") =>
          LET m == out'.month
              old == {b \in budgets : b.month = m}
          IN /\ \E b \in budgets' : b.month = m /\ b.limit = out'.limit
             /\ \A b \in budgets : b.month # m => b \in budgets'
             /\ {b.id : b \in budgets} \subseteq {b.id : b \in budgets'}
             /\ IF old # {}
                THEN Cardinality(budgets') = Cardinality(budgets)
                ELSE Cardinality(budgets') = Cardinality(budgets) + 1
             /\ (out.op = "set_budget" /\ out.status = "set" /\ out.month = m
                  /\ out.limit = out'.limit) => budgets' = budgets]_vars

\* C4 witness: set_budget has just set the limit 10 for a month that had
\* its row before the row of another month was made
C4_Witness ==
  /\ out.op = "set_budget"
  /\ out.status = "set"
  /\ out.limit = 10
  /\ \E a, b \in budgets :
       /\ a.id < b.id
       /\ a.month = out.month
       /\ a.limit = 10
       /\ b.limit = 5

\* the band of spent against the limit L > 0, in whole numbers
BandOf(spent, L) ==
  IF spent * 100 < 80 * L THEN "GOOD"
  ELSE IF spent * 100 < 100 * L THEN "CAUTION"
  ELSE "OVER BUDGET!"

\* C5: for a month that has a Budget with limit L, budget_status reports
\* spent = the sum of the amounts of the expenses dated in that month and
\* one band: GOOD when spent*100 < 80*L, CAUTION when 80*L <= spent*100 <
\* 100*L, OVER BUDGET when spent*100 >= 100*L (0.79 is GOOD, 0.80 and 0.999
\* are CAUTION, 1.00 is OVER BUDGET); with L = 0 the percent is 0 and
\* nothing is divided by zero.
C5_BudgetStatusBands ==
  /\ (out.op = "budget_status" /\ out.status = "ok") =>
       /\ out.month = MonthOf(today)
       /\ \E b \in budgets : b.month = out.month /\ b.limit = out.limit
       /\ out.spent = SumAmounts({e \in expenses : e.date \div MonthLen = out.month})
       /\ out.percent[2] # 0
       /\ out.percent[1] * out.limit = out.spent * 100 * out.percent[2]
       /\ out.band = BandOf(out.spent, out.limit)
  /\ (out.op = "budget_status" /\ out.status = "no budget") =>
       \A b \in budgets : b.month # MonthOf(today)
  /\ \A m \in Months :
       LET spent == SpentIn(m)
       IN /\ Percent(spent, 0)[2] # 0
          /\ Percent(spent, 0)[1] = 0
          /\ \A L \in {5, 10} : StatusText(Percent(spent, L)) = BandOf(spent, L)
  /\ StatusText(Percent(79, 100)) = "GOOD"
  /\ StatusText(Percent(80, 100)) = "CAUTION"
  /\ StatusText(Percent(999, 1000)) = "CAUTION"
  /\ StatusText(Percent(100, 100)) = "OVER BUDGET!"
  /\ StatusText(Percent(4000, 5000)) = "CAUTION"
  /\ Percent(4000, 5000)[1] = 80 * Percent(4000, 5000)[2]

\* C5 witness: budget_status reports exactly 80 percent of a budget as
\* CAUTION, with an expense of another month left out of spent
C5_Witness ==
  /\ out.op = "budget_status"
  /\ out.status = "ok"
  /\ out.spent * 100 = 80 * out.limit
  /\ out.band = "CAUTION"
  /\ \E e \in expenses : MonthOf(e.date) # out.month

\* C6: search_expenses returns its rows in the order of list_expenses: date
\* descending and, among expenses of the same date, id descending.
C6_SearchOrderedLikeList ==
  (out.op = "search_expenses") =>
    \A i, j \in 1..Len(out.rows) :
      i < j =>
        \/ out.rows[i].date > out.rows[j].date
        \/ (out.rows[i].date = out.rows[j].date /\ out.rows[i].id > out.rows[j].id)

\* the amounts of the expenses of month, of one category or of all
MonthAmounts(month) == {e \in expenses : e.date \div MonthLen = month}
MonthAmountsOf(c, month) == {e \in MonthAmounts(month) : e.category_id = c.id}

RECURSIVE SumTotals(_)
SumTotals(rows) ==
  IF rows = <<>> THEN 0 ELSE Head(rows).total + SumTotals(Tail(rows))

\* C7: category_report(month) lists exactly the categories whose sum of
\* expense amounts dated in that month is greater than 0, ordered by that
\* sum descending; its grand total equals the sum of the listed totals and
\* the sum of the amounts of all expenses dated in that month; when every
\* total is 0 it reports "no spending" and no rows.
C7_CategoryReport ==
  (out.op = "category_report") =>
    LET m == out.month
        spending == {c \in categories : SumAmounts(MonthAmountsOf(c, m)) > 0}
    IN /\ Range(out.rows) =
            {[name |-> c.name, total |-> SumAmounts(MonthAmountsOf(c, m))] : c \in spending}
       /\ Len(out.rows) = Cardinality(spending)
       /\ \A i, j \in 1..Len(out.rows) : i < j => out.rows[i].total >= out.rows[j].total
       /\ out.total = SumTotals(out.rows)
       /\ out.total = SumAmounts(MonthAmounts(m))
       /\ (out.status = "no spending") <=> (spending = {})
       /\ (out.status = "no spending") => (out.rows = <<>> /\ out.total = 0)
       /\ out.status \in {"no spending", "ok"}

\* C7 witness: a report of two categories with different totals, while an
\* expense of another month is stored
C7_Witness ==
  /\ out.op = "category_report"
  /\ out.status = "ok"
  /\ Len(out.rows) = 2
  /\ out.rows[1].total > out.rows[2].total
  /\ \E e \in expenses : MonthOf(e.date) # out.month

\* C8: list_expenses(limit=N) returns min(N, number of stored expenses)
\* rows, never more than N: the first N of all stored expenses sorted by
\* (date descending, id descending).
C8_ListLimitedAndSorted ==
  (out.op = "list_expenses") =>
    LET rows == out.rows
        N == out.limit
    IN /\ Len(rows) <= N
       /\ Len(rows) = (IF N <= Cardinality(expenses) THEN N ELSE Cardinality(expenses))
       /\ Range(rows) \subseteq expenses
       /\ Cardinality(Range(rows)) = Len(rows)
       /\ \A i, j \in 1..Len(rows) :
            i < j =>
              \/ rows[i].date > rows[j].date
              \/ (rows[i].date = rows[j].date /\ rows[i].id > rows[j].id)
       /\ \A r \in Range(rows), e \in expenses \ Range(rows) :
            \/ r.date > e.date
            \/ (r.date = e.date /\ r.id > e.id)

\* C8 witness: two of three stored expenses are listed, the two of one
\* date, after a deletion (an id beyond the number of rows is stored)
C8_Witness ==
  /\ out.op = "list_expenses"
  /\ out.limit = 2
  /\ Len(out.rows) = 2
  /\ Cardinality(expenses) = 3
  /\ out.rows[1].date = out.rows[2].date
  /\ \E e \in expenses : e.id > 3

\* C10: list_upcoming_subscriptions(days) returns exactly the stored
\* subscriptions with next_due <= today + days, overdue ones included,
\* ordered by next_due ascending, each with days_left = next_due - today
\* and one band: overdue (red) when days_left <= 0, due-soon (yellow) when
\* 1 <= days_left <= 7, upcoming (green) when days_left > 7.
C10_UpcomingSubscriptions ==
  (out.op = "list_upcoming_subscriptions") =>
    LET rows == out.rows
    IN /\ {rows[i].sub : i \in 1..Len(rows)} =
            {s \in subscriptions : s.next_date <= today + out.days}
       /\ Cardinality({rows[i].sub : i \in 1..Len(rows)}) = Len(rows)
       /\ \A i, j \in 1..Len(rows) :
            i < j => rows[i].sub.next_date <= rows[j].sub.next_date
       /\ \A i \in 1..Len(rows) :
            /\ rows[i].days_left = rows[i].sub.next_date - today
            /\ (rows[i].color = "red") <=> (rows[i].days_left <= 0)
            /\ (rows[i].color = "yellow") <=> (1 <= rows[i].days_left /\ rows[i].days_left <= 7)
            /\ (rows[i].color = "green") <=> (rows[i].days_left > 7)
            /\ rows[i].color \in {"red", "yellow", "green"}

\* C10 witness: a subscription due in 3 days is listed as due-soon after
\* one that is overdue, and a later one is left out
C10_Witness ==
  /\ out.op = "list_upcoming_subscriptions"
  /\ Len(out.rows) = 2
  /\ out.rows[1].days_left < 0
  /\ out.rows[1].color = "red"
  /\ out.rows[2].days_left = 3
  /\ out.rows[2].color = "yellow"
  /\ Cardinality(subscriptions) = 3
====
